---- MODULE Spec2Model ----
(***************************************************************************)
(* Expression Multiplexer firmware (ExpMultiplexer.ino): the main cycle    *)
(* loop(), the Timer1 interrupt IntTmr1() that may preempt it between its  *)
(* statements, the button latch, the LED recompute, the taper mapping and  *)
(* the 10-byte EEPROM record.                                              *)
(*                                                                         *)
(* Granularity.  loop() is cut into steps at every point where an          *)
(* interrupt between two statements can be told apart from an interrupt    *)
(* before or after them: the gesture dispatch, SelIndex++ and its wrap,    *)
(* arming the long-press counter and reading it, every pass of a blocking  *)
(* wait, the EEPROM update, ClrBtns.  Consecutive assignments that end in  *)
(* the main cycle's own CheckLeds() are one step.  The interrupt is one    *)
(* atomic step (it cannot be preempted).                                   *)
(***************************************************************************)
EXTENDS Integers, Sequences, FiniteSets, TLC

(* ------------------------------ bounds -------------------------------- *)
\* how many times the user presses a button (either one) in a run
MaxPresses == 2
\* how many times the quantized selector reading changes in a run
MaxTurns == 1
\* the interrupt stops incrementing the (byte) long-press counter here
MaxCounter == 5

(* ------------------------- program constants -------------------------- *)
NumChnl == 4
NoPatch == 255
LongPress == 3
HIGH == TRUE
LOW == FALSE
NoWrite == -1

Chnls == 0 .. (NumChnl - 1)
Byte == 0 .. 255

\* sampled expression-pedal readings (analogRead(ExpIn) >> 2)
ExpSamples == {50, 100}
\* quantized selector readings (analogRead(SelIn) >> 8, a 10-bit reading)
SelReadings == 0 .. 3
\* the selector positions the device is started at
InitSelReadings == {0}
\* what a read outside an array can return
Garbage == {0, 1, 255}

\* a falling curve in place of the table
LogPotFalling == [k \in 1 .. 256 |-> 256 - k]
\* the table LogPot; entry v of the array is LogPot[v + 1]
LogPot == <<
    0, 0, 0, 0, 0, 0, 0, 0, 0, 0, 0, 0, 1, 1, 1, 1,
    1, 1, 1, 1, 2, 2, 2, 2, 2, 2, 3, 3, 3, 3, 4, 4,
    4, 4, 5, 5, 5, 5, 6, 6, 6, 7, 7, 7, 8, 8, 8, 9,
    9, 9, 10, 10, 11, 11, 11, 12, 12, 13, 13, 14, 14, 15, 15, 16,
    16, 17, 17, 18, 18, 19, 19, 20, 20, 21, 21, 22, 23, 23, 24, 24,
    25, 26, 26, 27, 28, 28, 29, 30, 30, 31, 32, 32, 33, 34, 35, 35,
    36, 37, 38, 38, 39, 40, 41, 42, 42, 43, 44, 45, 46, 47, 47, 48,
    49, 50, 51, 52, 53, 54, 55, 56, 56, 57, 58, 59, 60, 61, 62, 63,
    64, 65, 66, 67, 68, 69, 70, 71, 73, 74, 75, 76, 77, 78, 79, 80,
    81, 82, 84, 85, 86, 87, 88, 89, 91, 92, 93, 94, 95, 97, 98, 99,
    100, 102, 103, 104, 105, 107, 108, 109, 111, 112, 113, 115, 116, 117, 119, 120,
    121, 123, 124, 126, 127, 128, 130, 131, 133, 134, 136, 137, 139, 140, 142, 143,
    145, 146, 148, 149, 151, 152, 154, 155, 157, 158, 160, 162, 163, 165, 166, 168,
    170, 171, 173, 175, 176, 178, 180, 181, 183, 185, 186, 188, 190, 192, 193, 195,
    197, 199, 200, 202, 204, 206, 207, 209, 211, 213, 215, 217, 218, 220, 222, 224,
    226, 228, 230, 232, 233, 235, 237, 239, 241, 243, 245, 247, 249, 251, 253, 255 >>

(* --------------------------- byte arithmetic -------------------------- *)
RECURSIVE Pow2(_)
Pow2(n) == IF n = 0 THEN 1 ELSE 2 * Pow2(n - 1)

Shl(x, n) == x * Pow2(n)
Shr(x, n) == x \div Pow2(n)

RECURSIVE BitOr(_, _)
BitOr(a, b) ==
    IF a = 0 THEN b
    ELSE IF b = 0 THEN a
    ELSE (IF (a % 2 = 1) \/ (b % 2 = 1) THEN 1 ELSE 0)
         + 2 * BitOr(a \div 2, b \div 2)

ToByte(x) == x % 256
BoolByte(b) == IF b THEN 1 ELSE 0

(* ------------------------------ variables ----------------------------- *)
VARIABLES
    ExpVal, SelVal, LastSelVal, SelValChng,      \* sampled inputs
    PatchModeState, PatchChnlState, PatchActive, \* patches, active patch
    ChnlState, ChnlMode, SelIndex,               \* channels, selection
    SaveModeCounter, SvMdCntrActive,             \* long-press counter
    NvmData,                                     \* the record, as in EEPROM
    Btn0Pressed, Btn0Released, Btn1Pressed, Btn1Released,
    PatchMode, SaveMode,
    ChnlLedState, ModeLedState,
    pc,          \* where loop() stands
    Btn0State,   \* last sampled level of the On/Off pin (active low)
    Btn1State,   \* last sampled level of the Select pin (active low)
    PotOut,      \* what this pass wrote to each digital pot (NoWrite: nothing)
    presses,     \* button presses made so far
    turns,       \* selector changes made so far
    tmr500,      \* a 500 ms task ran since this pass of loop() began or last waited
    ev,          \* the gesture branch this pass of loop() took
    old,         \* the state this pass of loop() started from
    late,        \* the counter holds a 500 ms count made with Select not latched down
    fresh        \* a button went down since the last combined press was acted on

inVars   == <<ExpVal, SelVal, LastSelVal, SelValChng>>
patchTbl == <<PatchModeState, PatchChnlState>>
chnlVars == <<ChnlState, ChnlMode>>
cntVars  == <<SaveModeCounter, SvMdCntrActive>>
btnVars  == <<Btn0Pressed, Btn0Released, Btn1Pressed, Btn1Released>>
modeVars == <<PatchMode, SaveMode>>
ledVars  == <<ChnlLedState, ModeLedState>>
envVars  == <<Btn0State, Btn1State, presses, turns>>
passVars == <<ev, old>>

vars == <<inVars, patchTbl, PatchActive, chnlVars, SelIndex, cntVars, NvmData,
          btnVars, modeVars, ledVars, pc, envVars, PotOut, tmr500, passVars,
          late, fresh>>

(* ----------------------- the 10-byte record ---------------------------- *)
\* byte 0 packed with the shifts of channels 2 and 3 exchanged
PackModesCrossed(m) ==
    ToByte(BitOr(BitOr(BitOr(Shl(m[3], 4), Shl(m[2], 6)), Shl(m[1], 2)), m[0]))

\* UpdateNvmData: the record built from the configuration
PackModes(m) ==
    ToByte(BitOr(BitOr(BitOr(Shl(m[3], 6), Shl(m[2], 4)), Shl(m[1], 2)), m[0]))

RECURSIVE PackHelper(_, _, _)
\* the inner loops of UpdateNvmData: helper = helper | (v[j] << j * w), j = 0..3
PackHelper(v, w, j) ==
    IF j < 0 THEN 0
    ELSE ToByte(BitOr(PackHelper(v, w, j - 1), Shl(v[j], j * w)))

EncodeNvm(cm, pcs, pms, pm) ==
    [k \in 0 .. 9 |->
        IF k = 0 THEN PackModes(cm)
        ELSE IF k = 9 THEN BoolByte(pm)
        ELSE IF k % 2 = 1
             THEN PackHelper([j \in Chnls |-> BoolByte(pcs[(k - 1) \div 2][j])], 1, 3)
             ELSE PackHelper(pms[(k - 2) \div 2], 2, 3)]

\* channel tapers read without the mask
DecodeChnlModeRaw(nvm) == [i \in Chnls |-> Shr(nvm[0], i * 2)]
\* ReadNvmData: the configuration read back from the record
DecodeChnlMode(nvm) == [i \in Chnls |-> Shr(nvm[0], i * 2) % 4]
DecodePatchChnlState(nvm) ==
    [i \in Chnls |-> [j \in Chnls |-> (Shr(nvm[1 + (i * 2)], j) % 2) = 1]]
\* patch tapers read with the shift of the enabled bits
DecodePatchModeStateNarrow(nvm) ==
    [i \in Chnls |-> [j \in Chnls |-> Shr(nvm[2 + (i * 2)], j) % 4]]
DecodePatchModeState(nvm) ==
    [i \in Chnls |-> [j \in Chnls |-> Shr(nvm[2 + (i * 2)], j * 2) % 4]]
DecodePatchMode(nvm) == nvm[9] # 0

UpdateNvmData == EncodeNvm(ChnlMode, PatchChnlState, PatchModeState, PatchMode)

(* --------------------------- taper mapping ----------------------------- *)
\* the switch with the cases of the two inverse tapers exchanged
TaperValueSwapped(m, v) ==
    CASE m = 0 -> v
      [] m = 3 -> 255 - v
      [] m = 2 -> LogPot[v + 1]
      [] m = 1 -> LogPot[(255 - v) + 1]
      [] OTHER -> NoWrite

\* the switch of the output loops: the value written for mode m, or NoWrite
TaperValue(m, v) ==
    CASE m = 0 -> v
      [] m = 1 -> 255 - v
      [] m = 2 -> LogPot[v + 1]
      [] m = 3 -> LogPot[(255 - v) + 1]
      [] OTHER -> NoWrite

\* one pass of an output loop over enabled flags en and modes md
OutputLoop(en, md, v) ==
    [i \in Chnls |-> IF en[i] THEN TaperValue(md[i], v) ELSE NoWrite]

(* ----------------------------- buttons --------------------------------- *)
\* CheckBtns for one button: the flags after a sample of level pin
LatchPressed(pin, p, r) == IF (pin = LOW) /\ ~p /\ ~r THEN TRUE ELSE p
\* a release latched without a latched press
LatchReleasedAlways(pin, p, r) == IF (pin = HIGH) /\ ~r THEN TRUE ELSE r
LatchReleased(pin, p, r) ==
    IF (pin = HIGH) /\ LatchPressed(pin, p, r) /\ ~r THEN TRUE ELSE r

\* a sample that finds a button down that was up at the last sample is a
\* new press by the user
NewPress(last, now) == IF last = HIGH /\ now = LOW THEN 1 ELSE 0

\* CheckBtns, the pins read as l0 and l1
CheckBtns(l0, l1) ==
    /\ presses + NewPress(Btn0State, l0) + NewPress(Btn1State, l1) <= MaxPresses
    /\ presses' = presses + NewPress(Btn0State, l0) + NewPress(Btn1State, l1)
    /\ Btn0State' = l0
    /\ Btn1State' = l1
    /\ Btn0Pressed'  = LatchPressed(l0, Btn0Pressed, Btn0Released)
    /\ Btn0Released' = LatchReleased(l0, Btn0Pressed, Btn0Released)
    /\ Btn1Pressed'  = LatchPressed(l1, Btn1Pressed, Btn1Released)
    /\ Btn1Released' = LatchReleased(l1, Btn1Pressed, Btn1Released)
    /\ fresh' = (fresh \/ NewPress(Btn0State, l0) + NewPress(Btn1State, l1) > 0)

ClrBtns ==
    /\ Btn0Pressed'  = FALSE
    /\ Btn0Released' = FALSE
    /\ Btn1Pressed'  = FALSE
    /\ Btn1Released' = FALSE

(* ------------------------------- LEDs ---------------------------------- *)
InRange(i) == i \in Chnls

\* CheckLeds, channel LEDs, for mode flags pm/sm, selection sel, active patch
\* pa, channel flags cs and patch flags pcs; g is what a read outside the
\* patch table returns
ChnlLeds(pm, sm, sel, pa, cs, pcs, g) ==
    [i \in Chnls |->
        IF pm
        THEN IF InRange(pa) THEN BoolByte(pcs[pa][i]) ELSE g
        ELSE IF ~sm
        THEN IF sel # i /\ cs[i] THEN 1
             ELSE IF sel # i /\ ~cs[i] THEN 0
             ELSE IF cs[i] THEN 3 ELSE 2
        ELSE BoolByte(cs[i])]

\* CheckLeds, mode LEDs; g is what a read outside ChnlMode returns (a store
\* to ModeLedState[g] outside the array leaves the array as it is)
ModeLeds(pm, sm, sel, pa, cm, g) ==
    [i \in Chnls |->
        IF pm
        THEN IF sel # pa /\ pa = i THEN 1
             ELSE IF sel # i /\ pa # i THEN 0
             ELSE IF sel = i /\ pa = i THEN 3
             ELSE 2
        ELSE IF ~sm
        THEN IF (IF InRange(sel) THEN cm[sel] ELSE g) = i THEN 1 ELSE 0
        ELSE IF sel = i THEN 3 ELSE 0]

\* the reads of CheckLeds that fall outside an array
LedsOutOfRange(pm, sm, sel, pa) ==
    \/ pm /\ ~InRange(pa)
    \/ ~pm /\ ~sm /\ ~InRange(sel)

\* CheckLeds on the configuration (pm, sm, sel, pa, cs, cm, pcs)
CheckLeds(pm, sm, sel, pa, cs, cm, pcs) ==
    \E g \in IF LedsOutOfRange(pm, sm, sel, pa) THEN Garbage ELSE {0} :
        /\ ChnlLedState' = ChnlLeds(pm, sm, sel, pa, cs, pcs, g)
        /\ ModeLedState' = ModeLeds(pm, sm, sel, pa, cm, g)

(* ------------------------------ start-up ------------------------------- *)
Seq10(q) == [k \in 0 .. 9 |-> q[k + 1]]

\* EEPROM contents the device is started with: never written (all 0xFF), a
\* configured device left in normal mode, the same left in patch mode
EepromImages ==
    { [k \in 0 .. 9 |-> 255],
      Seq10(<<228, 5, 30, 10, 228, 0, 0, 15, 27, 0>>),
      Seq10(<<228, 5, 30, 10, 228, 0, 0, 15, 27, 1>>) }

Mode(pm, sm) == IF pm THEN "Patch" ELSE IF sm THEN "Save" ELSE "Normal"

\* Select is latched pressed and released, On/Off is idle, and the long-press
\* counter is not past its threshold
EarlyRelease ==
    /\ Btn1Pressed /\ Btn1Released
    /\ ~Btn0Pressed /\ ~Btn0Released
    /\ SaveModeCounter <= LongPress

\* what a pass of loop() starts from
Snapshot(chg) ==
    [ mode |-> Mode(PatchMode, SaveMode), sel |-> SelIndex, pa |-> PatchActive,
      cs |-> ChnlState, cm |-> ChnlMode,
      pcs |-> PatchChnlState, pms |-> PatchModeState,
      chg |-> chg, tap |-> EarlyRelease ]

\* stored records with one byte damaged: ReadNvmData reads every field from
\* one byte, so these show every value every field can be loaded from
DamagedImages ==
    { [img EXCEPT ![k] = b] : img \in EepromImages, k \in 0 .. 9, b \in Byte }

\* the state when loop() is entered, the record in EEPROM being one of imgs
\* and the active patch pa
Loaded(imgs, pa) ==
    /\ \E img \in imgs :
        /\ NvmData = img
        /\ ChnlMode = DecodeChnlMode(img)
        /\ PatchChnlState = DecodePatchChnlState(img)
        /\ PatchModeState = DecodePatchModeState(img)
        /\ PatchMode = DecodePatchMode(img)
    /\ SelVal \in InitSelReadings
    /\ LastSelVal = SelVal
    /\ SelValChng = FALSE
    /\ ExpVal \in ExpSamples
    /\ PotOut = [i \in Chnls |-> ExpVal]
    /\ PatchActive = pa
    /\ ChnlState = [i \in Chnls |-> FALSE]
    /\ SelIndex = 0
    /\ SaveModeCounter = 0
    /\ SvMdCntrActive = FALSE
    /\ Btn0State = HIGH /\ Btn1State = HIGH
    /\ Btn0Pressed = FALSE /\ Btn0Released = FALSE
    /\ Btn1Pressed = FALSE /\ Btn1Released = FALSE
    /\ SaveMode = FALSE
    /\ ChnlLedState = [i \in Chnls |-> 0]
    /\ ModeLedState = [i \in Chnls |-> 0]
    /\ pc = "top"
    /\ presses = 0 /\ turns = 0
    /\ tmr500 = FALSE
    /\ ev = "setup"
    /\ old = Snapshot(FALSE)
    /\ late = FALSE
    /\ fresh = FALSE

\* the state when loop() is entered with active patch pa
Started(pa) == Loaded(EepromImages, pa)

\* setup(): the state when loop() is first entered
Init == Started(NoPatch)

\* setup() on a device whose EEPROM holds a damaged record
InitDamaged == Loaded(DamagedImages, NoPatch)

\* a patch activated in an earlier stay in patch mode (PatchActive is only
\* ever written by the On/Off tap of patch mode, lines 216-222)
EarlierPatches == {1}

\* loop() at the head of a pass with the buttons idle, as setup() leaves it
\* but for the patch activated earlier
InitInUse == \E pa \in EarlierPatches : Started(pa)

(* ------------------------------ interrupt ------------------------------ *)
\* which derived tasks an interrupt runs besides the 10 ms task: TimerCount
\* makes every 10th a 100 ms task and every 50th a 100 ms and a 500 ms task
\* (the 250 ms task only toggles pins)
TickKinds == {10, 100, 500}

\* IntTmr1: Tmr10msTask (CheckBtns), Tmr100msTask (CheckLeds), Tmr500msTask
\* (CheckSaveMode).  Two 500 ms tasks are 500 ms apart and a pass of loop()
\* is far shorter unless it waits: at most one 500 ms task runs between the
\* head of loop(), a pass of a blocking wait and the delay(10) that follows it.
IntTmr1 ==
    \E kind \in TickKinds, l0 \in BOOLEAN, l1 \in BOOLEAN :
        /\ (kind = 500) =>
              /\ ~tmr500
              /\ SvMdCntrActive => SaveModeCounter < MaxCounter
        /\ CheckBtns(l0, l1)
        /\ IF kind >= 100
             THEN CheckLeds(PatchMode, SaveMode, SelIndex, PatchActive,
                            ChnlState, ChnlMode, PatchChnlState)
             ELSE UNCHANGED ledVars
        /\ SaveModeCounter' =
              IF kind = 500 /\ SvMdCntrActive
              THEN ToByte(SaveModeCounter + 1) ELSE SaveModeCounter
        /\ tmr500' = (tmr500 \/ kind = 500)
        /\ late' =
              IF kind = 500 /\ SvMdCntrActive /\ ~(Btn1Pressed' /\ ~Btn1Released')
              THEN TRUE ELSE late
        /\ UNCHANGED <<inVars, patchTbl, PatchActive, chnlVars, SelIndex,
                       SvMdCntrActive, NvmData, modeVars, pc, turns, PotOut,
                       passVars>>

(* ------------------------------- loop() -------------------------------- *)
\* loop() goes from statement `from' to statement `to'
Step(from, to) ==
    /\ pc = from
    /\ pc' = to
    /\ fresh' = IF from \in {"p_mode", "n_mode"} THEN FALSE ELSE fresh
    /\ UNCHANGED envVars

\* a step of loop() that takes microseconds
Quick(from, to) == Step(from, to) /\ UNCHANGED tmr500

\* the gestures the branch conditions of loop() test
OnOffTap  == Btn0Pressed /\ Btn0Released /\ ~Btn1Pressed /\ ~Btn1Released
SelectTap == ~Btn0Pressed /\ ~Btn0Released /\ Btn1Pressed /\ Btn1Released
BothDown  == Btn0Pressed /\ ~Btn0Released /\ Btn1Pressed /\ ~Btn1Released
SelectDown == ~Btn0Pressed /\ ~Btn0Released /\ Btn1Pressed /\ ~Btn1Released

\* the chains with the first test mistaken: patch mode falls into the chain
\* of normal mode
BranchPastPatch ==
    IF PatchMode /\ SaveMode
    THEN IF OnOffTap THEN "p_onoff"
         ELSE IF SelectTap THEN "p_inc"
         ELSE IF BothDown THEN "p_mode"
         ELSE "p_sel"
    ELSE IF ~SaveMode
    THEN IF OnOffTap THEN "n_tog"
         ELSE IF SelectTap THEN "n_inc"
         ELSE IF BothDown THEN "n_mode"
         ELSE IF SelectDown THEN "n_arm"
         ELSE "n_sel"
    ELSE IF Btn1Pressed /\ ~Btn1Released THEN "s_arm" ELSE "s_track"

\* the if / else-if chains of loop(): the first statement of the branch the
\* pass takes
Branch ==
    IF PatchMode
    THEN IF OnOffTap THEN "p_onoff"
         ELSE IF SelectTap THEN "p_inc"
         ELSE IF BothDown THEN "p_mode"
         ELSE "p_sel"
    ELSE IF ~PatchMode /\ ~SaveMode
    THEN IF OnOffTap THEN "n_tog"
         ELSE IF SelectTap THEN "n_inc"
         ELSE IF BothDown THEN "n_mode"
         ELSE IF SelectDown THEN "n_arm"
         ELSE "n_sel"
    ELSE IF Btn1Pressed /\ ~Btn1Released THEN "s_arm" ELSE "s_track"

\* the gesture a branch answers
Gesture(b) ==
    CASE b \in {"p_onoff", "n_tog"} -> "onoff"
      [] b \in {"p_inc", "n_inc"} -> "select"
      [] b \in {"p_mode", "n_mode"} -> "combined"
      [] b \in {"n_arm", "s_arm"} -> "hold"
      [] OTHER -> "none"

\* CheckSelector: SelValChng after a reading s
SelectorChanged(s) == IF s # LastSelVal THEN TRUE ELSE SelValChng

\* loop(), its head: the two readings, CheckSelector, and the evaluation of
\* the mode and gesture conditions
LoopTop ==
    \E e \in ExpSamples, s \in SelReadings :
        /\ (s # LastSelVal) => turns < MaxTurns
        /\ pc = "top"
        /\ pc' = Branch
        /\ tmr500' = FALSE
        /\ ExpVal' = e
        /\ SelVal' = s
        /\ SelValChng' = SelectorChanged(s)
        /\ LastSelVal' = s
        /\ turns' = IF s # LastSelVal THEN turns + 1 ELSE turns
        /\ ev' = Gesture(Branch)
        /\ old' = Snapshot(SelectorChanged(s))
        /\ PotOut' = [i \in Chnls |-> NoWrite]
        /\ UNCHANGED <<patchTbl, PatchActive, chnlVars, SelIndex, cntVars, NvmData,
                       btnVars, modeVars, ledVars, Btn0State, Btn1State,
                       presses, late, fresh>>

\* SelIndex++ (a byte)
IncSel(s) == ToByte(s + 1)
\* the wrap with its bound off by one
WrapSelLate(s) == IF s > 4 THEN 0 ELSE s
\* if(SelIndex > 3) SelIndex = 0
WrapSel(s) == IF s > 3 THEN 0 ELSE s

\* an On/Off tap that never deactivates
TogglePatchOn(sel, active) == sel
\* the On/Off tap of patch mode: the active patch after it
TogglePatch(sel, active) == IF sel = active THEN NoPatch ELSE sel

\* while(<no release latched>){ CheckBtns(); delay(10); }: one evaluation of
\* the condition and, when it holds, one pass of the body
WaitRelease(from, to, waiting) ==
    /\ pc = from
    /\ tmr500' = IF waiting THEN FALSE ELSE tmr500
    /\ IF waiting
         THEN /\ \E l0 \in BOOLEAN, l1 \in BOOLEAN : CheckBtns(l0, l1)
              /\ pc' = pc
         ELSE /\ UNCHANGED <<btnVars, Btn0State, Btn1State, presses, fresh>>
              /\ pc' = to
    /\ UNCHANGED <<inVars, patchTbl, PatchActive, chnlVars, SelIndex, cntVars,
                   NvmData, modeVars, ledVars, turns, PotOut, passVars, late>>

\* ClrBtns();
Clear(from, to) ==
    /\ Quick(from, to)
    /\ ClrBtns
    /\ UNCHANGED <<inVars, patchTbl, PatchActive, chnlVars, SelIndex, cntVars,
                   NvmData, modeVars, ledVars, PotOut, passVars, late>>

\* delay(10); UpdateNvmData(); ClrBtns();
PersistClear(from, to) ==
    /\ Step(from, to)
    /\ tmr500' = FALSE
    /\ NvmData' = UpdateNvmData
    /\ ClrBtns
    /\ UNCHANGED <<inVars, patchTbl, PatchActive, chnlVars, SelIndex, cntVars,
                   modeVars, ledVars, PotOut, passVars, late>>

(* patch mode *)
\* On/Off tap: activate or deactivate the selected patch; CheckLeds
P_OnOff ==
    /\ Quick("p_onoff", "p_clr")
    /\ PatchActive' = TogglePatch(SelIndex, PatchActive)
    /\ CheckLeds(PatchMode, SaveMode, SelIndex, PatchActive', ChnlState,
                 ChnlMode, PatchChnlState)
    /\ UNCHANGED <<inVars, patchTbl, chnlVars, SelIndex, cntVars, NvmData,
                   btnVars, modeVars, PotOut, passVars, late>>

\* Select tap: SelIndex++
P_Inc ==
    /\ Quick("p_inc", "p_wrap")
    /\ SelIndex' = IncSel(SelIndex)
    /\ UNCHANGED <<inVars, patchTbl, PatchActive, chnlVars, cntVars, NvmData,
                   btnVars, modeVars, ledVars, PotOut, passVars, late>>

\* Select tap: the wrap to 0; CheckLeds
P_Wrap ==
    /\ Quick("p_wrap", "p_clr")
    /\ SelIndex' = WrapSel(SelIndex)
    /\ CheckLeds(PatchMode, SaveMode, SelIndex', PatchActive, ChnlState,
                 ChnlMode, PatchChnlState)
    /\ UNCHANGED <<inVars, patchTbl, PatchActive, chnlVars, cntVars, NvmData,
                   btnVars, modeVars, PotOut, passVars, late>>

\* both buttons down: to normal mode, SelIndex = 0; CheckLeds
P_Mode ==
    /\ Quick("p_mode", "p_wait")
    /\ PatchMode' = FALSE
    /\ SelIndex' = 0
    /\ CheckLeds(PatchMode', SaveMode, SelIndex', PatchActive, ChnlState,
                 ChnlMode, PatchChnlState)
    /\ UNCHANGED <<inVars, patchTbl, PatchActive, chnlVars, cntVars, NvmData,
                   btnVars, SaveMode, PotOut, passVars, late>>

P_Wait == WaitRelease("p_wait", "p_upd", ~Btn0Released /\ ~Btn1Released)
P_Upd == PersistClear("p_upd", "p_sel")
P_Clr == Clear("p_clr", "p_sel")

\* the output loop of patch mode
PatchOutput ==
    IF PatchActive < 5
    THEN OutputLoop(PatchChnlState[PatchActive], PatchModeState[PatchActive],
                    ExpVal)
    ELSE [i \in Chnls |-> NoWrite]

\* the tail of patch mode.  Selector changed: it selects the patch;
\* CheckLeds.  Then the output loop.
P_Sel ==
    /\ Quick("p_sel", "top")
    /\ IF SelValChng
         THEN /\ SelIndex' = SelVal
              /\ CheckLeds(PatchMode, SaveMode, SelIndex', PatchActive,
                           ChnlState, ChnlMode, PatchChnlState)
              /\ SelValChng' = FALSE
         ELSE UNCHANGED <<SelIndex, ledVars, SelValChng>>
    /\ PotOut' = PatchOutput
    /\ UNCHANGED <<ExpVal, SelVal, LastSelVal, patchTbl, PatchActive, chnlVars,
                   cntVars, NvmData, btnVars, modeVars, passVars, late>>

(* normal mode *)
\* On/Off tap: toggle the selected channel, reset the counter; CheckLeds
N_Toggle ==
    /\ Quick("n_tog", "n_clr")
    /\ ChnlState' = [ChnlState EXCEPT ![SelIndex] = ~@]
    /\ SvMdCntrActive' = FALSE
    /\ SaveModeCounter' = 0
    /\ CheckLeds(PatchMode, SaveMode, SelIndex, PatchActive, ChnlState',
                 ChnlMode, PatchChnlState)
    /\ late' = FALSE
    /\ UNCHANGED <<inVars, patchTbl, PatchActive, ChnlMode, SelIndex, NvmData,
                   btnVars, modeVars, PotOut, passVars>>

\* Select tap: SelIndex++
N_Inc ==
    /\ Quick("n_inc", "n_wrap")
    /\ SelIndex' = IncSel(SelIndex)
    /\ UNCHANGED <<inVars, patchTbl, PatchActive, chnlVars, cntVars, NvmData,
                   btnVars, modeVars, ledVars, PotOut, passVars, late>>

\* Select tap: the wrap to 0, reset the counter; CheckLeds
N_Wrap ==
    /\ Quick("n_wrap", "n_clr")
    /\ SelIndex' = WrapSel(SelIndex)
    /\ SvMdCntrActive' = FALSE
    /\ SaveModeCounter' = 0
    /\ CheckLeds(PatchMode, SaveMode, SelIndex', PatchActive, ChnlState,
                 ChnlMode, PatchChnlState)
    /\ late' = FALSE
    /\ UNCHANGED <<inVars, patchTbl, PatchActive, chnlVars, NvmData, btnVars,
                   modeVars, PotOut, passVars>>

\* both buttons down: reset the counter, SelIndex = 0, to patch mode; CheckLeds
N_Mode ==
    /\ Quick("n_mode", "n_wait")
    /\ SvMdCntrActive' = FALSE
    /\ SaveModeCounter' = 0
    /\ SelIndex' = 0
    /\ PatchMode' = TRUE
    /\ CheckLeds(PatchMode', SaveMode, SelIndex', PatchActive, ChnlState,
                 ChnlMode, PatchChnlState)
    /\ late' = FALSE
    /\ UNCHANGED <<inVars, patchTbl, PatchActive, chnlVars, NvmData, btnVars,
                   SaveMode, PotOut, passVars>>

N_Wait == WaitRelease("n_wait", "n_upd", ~Btn0Released /\ ~Btn1Released)

\* Select down alone: arm the counter
N_Arm ==
    /\ Quick("n_arm", "n_chk")
    /\ SvMdCntrActive' = TRUE
    /\ UNCHANGED <<inVars, patchTbl, PatchActive, chnlVars, SelIndex,
                   SaveModeCounter, NvmData, btnVars, modeVars, ledVars, PotOut,
                   passVars, late>>

\* if(SaveModeCounter > 3)
LongPressed(counter) == counter > LongPress

\* the counter read: past the threshold, reset it, SelIndex = 0, enter save
\* mode; CheckLeds
N_Chk ==
    /\ pc = "n_chk"
    /\ UNCHANGED <<tmr500, fresh>>
    /\ IF LongPressed(SaveModeCounter)
         THEN /\ pc' = "n_swait"
              /\ SvMdCntrActive' = FALSE
              /\ SaveModeCounter' = 0
              /\ SelIndex' = 0
              /\ SaveMode' = TRUE
              /\ CheckLeds(PatchMode, SaveMode', SelIndex', PatchActive,
                           ChnlState, ChnlMode, PatchChnlState)
              /\ ev' = "enter"
              /\ late' = FALSE
         ELSE /\ pc' = "n_sel"
              /\ UNCHANGED <<cntVars, SelIndex, SaveMode, ledVars, ev, late>>
    /\ UNCHANGED <<inVars, patchTbl, PatchActive, chnlVars, NvmData, btnVars,
                   PatchMode, envVars, PotOut, old>>

N_SWait == WaitRelease("n_swait", "n_upd", ~Btn1Released)
N_Upd == PersistClear("n_upd", "n_sel")
N_Clr == Clear("n_clr", "n_sel")

\* a taper written to the channel after the selected one
SetTaperNext(cm, sel, v) == [cm EXCEPT ![(sel + 1) % NumChnl] = v]
\* selector changed: it sets the taper of the selected channel; CheckLeds,
\* UpdateNvmData
SetTaper(cm, sel, v) == [cm EXCEPT ![sel] = v]

\* the output loop of normal mode
NormalOutput(cs, cm) == OutputLoop(cs, cm, ExpVal)

\* the tail of normal mode.  Selector changed: it sets the taper of the
\* selected channel; CheckLeds, UpdateNvmData.  Then the output loop.
N_Sel ==
    /\ Quick("n_sel", "top")
    /\ IF SelValChng
         THEN /\ ChnlMode' = SetTaper(ChnlMode, SelIndex, SelVal)
              /\ SelValChng' = FALSE
              /\ CheckLeds(PatchMode, SaveMode, SelIndex, PatchActive,
                           ChnlState, ChnlMode', PatchChnlState)
              /\ NvmData' = EncodeNvm(ChnlMode', PatchChnlState,
                                      PatchModeState, PatchMode)
         ELSE UNCHANGED <<ChnlMode, SelValChng, ledVars, NvmData>>
    /\ PotOut' = NormalOutput(ChnlState, ChnlMode')
    /\ UNCHANGED <<ExpVal, SelVal, LastSelVal, patchTbl, PatchActive, ChnlState,
                   SelIndex, cntVars, btnVars, modeVars, passVars, late>>

(* save mode *)
\* Select down: arm the counter
S_Arm ==
    /\ Quick("s_arm", "s_chk")
    /\ SvMdCntrActive' = TRUE
    /\ UNCHANGED <<inVars, patchTbl, PatchActive, chnlVars, SelIndex,
                   SaveModeCounter, NvmData, btnVars, modeVars, ledVars, PotOut,
                   passVars, late>>

\* a copy that lands in every patch
CopyToEveryPatch(tbl, sel, src) == [p \in Chnls |-> src]
\* the copy loop of the commit: table tbl with row sel replaced by src
CopyToPatch(tbl, sel, src) == [tbl EXCEPT ![sel] = src]

\* the counter read: past the threshold, reset it, copy the channels to the
\* selected patch, SelIndex = 0, leave save mode; CheckLeds
S_Chk ==
    /\ pc = "s_chk"
    /\ UNCHANGED <<tmr500, fresh>>
    /\ IF LongPressed(SaveModeCounter)
         THEN /\ pc' = "s_wait"
              /\ SvMdCntrActive' = FALSE
              /\ SaveModeCounter' = 0
              /\ PatchModeState' = CopyToPatch(PatchModeState, SelIndex, ChnlMode)
              /\ PatchChnlState' = CopyToPatch(PatchChnlState, SelIndex, ChnlState)
              /\ SelIndex' = 0
              /\ SelValChng' = FALSE
              /\ SaveMode' = FALSE
              /\ CheckLeds(PatchMode, SaveMode', SelIndex', PatchActive,
                           ChnlState, ChnlMode, PatchChnlState')
              /\ ev' = "commit"
              /\ late' = FALSE
         ELSE /\ pc' = "s_track"
              /\ UNCHANGED <<cntVars, patchTbl, SelIndex, SelValChng, SaveMode,
                             ledVars, ev, late>>
    /\ UNCHANGED <<ExpVal, SelVal, LastSelVal, PatchActive, chnlVars, NvmData,
                   btnVars, PatchMode, envVars, PotOut, old>>

S_Wait == WaitRelease("s_wait", "s_upd", ~Btn1Released)
S_Upd == PersistClear("s_upd", "s_track")

\* SelIndex = SelVal; SelValChng = false;
S_Track ==
    /\ Quick("s_track", "top")
    /\ SelIndex' = SelVal
    /\ SelValChng' = FALSE
    /\ UNCHANGED <<ExpVal, SelVal, LastSelVal, patchTbl, PatchActive, chnlVars,
                   cntVars, NvmData, btnVars, modeVars, ledVars, PotOut,
                   passVars, late>>

(* ---------------------------- specification ---------------------------- *)
Loop ==
    \/ LoopTop
    \/ P_OnOff \/ P_Inc \/ P_Wrap \/ P_Mode \/ P_Wait \/ P_Upd \/ P_Clr
    \/ P_Sel
    \/ N_Toggle \/ N_Inc \/ N_Wrap \/ N_Mode \/ N_Wait \/ N_Arm \/ N_Chk
    \/ N_SWait \/ N_Upd \/ N_Clr \/ N_Sel
    \/ S_Arm \/ S_Chk \/ S_Wait \/ S_Upd \/ S_Track

Next == Loop \/ IntTmr1

Spec == Init /\ [][Next]_vars

\* loop() is called again and again by the core's main(), and Timer1 keeps
\* interrupting it: neither stops for good
SpecLive == Spec /\ WF_vars(Loop) /\ WF_vars(IntTmr1)

\* a reset: setup() runs again and ReadNvmData reads the record the EEPROM
\* holds, which is what NvmData was last read from or written to
PowerOn ==
    /\ LET img == NvmData IN
        /\ NvmData' = img
        /\ ChnlMode' = DecodeChnlMode(img)
        /\ PatchChnlState' = DecodePatchChnlState(img)
        /\ PatchModeState' = DecodePatchModeState(img)
        /\ PatchMode' = DecodePatchMode(img)
    /\ SelVal' \in InitSelReadings
    /\ LastSelVal' = SelVal'
    /\ SelValChng' = FALSE
    /\ ExpVal' \in ExpSamples
    /\ PotOut' = [i \in Chnls |-> ExpVal']
    /\ PatchActive' = NoPatch
    /\ ChnlState' = [i \in Chnls |-> FALSE]
    /\ SelIndex' = 0
    /\ SaveModeCounter' = 0
    /\ SvMdCntrActive' = FALSE
    /\ Btn0State' = HIGH /\ Btn1State' = HIGH
    /\ ClrBtns
    /\ SaveMode' = FALSE
    /\ ChnlLedState' = [i \in Chnls |-> 0]
    /\ ModeLedState' = [i \in Chnls |-> 0]
    /\ pc' = "top"
    /\ presses' = 0 /\ turns' = 0
    /\ tmr500' = FALSE
    /\ ev' = "setup"
    /\ old' = [ mode |-> Mode(PatchMode', SaveMode'), sel |-> 0, pa |-> NoPatch,
                cs |-> ChnlState', cm |-> ChnlMode',
                pcs |-> PatchChnlState', pms |-> PatchModeState',
                chg |-> FALSE, tap |-> FALSE ]
    /\ late' = FALSE
    /\ fresh' = FALSE

\* start-up, and start-up again, on every damaged record
SpecLoad == InitDamaged /\ [][PowerOn]_vars

\* the device in use, a patch having been activated earlier
SpecInUse == InitInUse /\ [][Next]_vars

(* ------------------------------ properties ----------------------------- *)
ModeNow == Mode(PatchMode, SaveMode)

\* a pass of loop() has ended
PassEnd == pc = "top" /\ ev # "setup"

\* the steps of loop() that enter save mode and that commit
EntryStep == pc = "n_chk" /\ pc' = "n_swait"
CommitStep == pc = "s_chk" /\ pc' = "s_wait"

\* C1: the mode changes only Normal->Patch, Patch->Normal, Normal->Save and
\* Save->Normal, and PatchMode and SaveMode are never both true.
C1_ModeChanges ==
    /\ ~(PatchMode /\ SaveMode)
    /\ [][ /\ ~(PatchMode' /\ SaveMode')
           /\ (ModeNow' # ModeNow) =>
                  <<ModeNow, ModeNow'>> \in { <<"Normal", "Patch">>,
                                             <<"Patch", "Normal">>,
                                             <<"Normal", "Save">>,
                                             <<"Save", "Normal">> } ]_vars

\* C1: a pass that committed has ended: save mode was left to normal mode
C1_Witness == PassEnd /\ ev = "commit" /\ old.mode = "Save" /\ ModeNow = "Normal"

\* C2: when a pass that started in normal or patch mode and saw both buttons
\* down ends, the mode is the other of the two, SelIndex is 0 and the stored
\* record holds the new mode.
C2_CombinedPress ==
    (PassEnd /\ ev = "combined") =>
        /\ ModeNow = (IF old.mode = "Patch" THEN "Normal" ELSE "Patch")
        /\ SelIndex = 0
        /\ DecodePatchMode(NvmData) = PatchMode

\* C3: the patch tables change only in the commit step of save mode; the
\* commit writes the four current (enabled, taper) pairs to the patch at
\* SelIndex and nothing else to the patches, and leaves the channels alone;
\* after a pass of save mode that did not commit SelIndex is the selector
\* reading.
C3_CommitOnly ==
    /\ []((PassEnd /\ old.mode = "Save" /\ ev # "commit") => SelIndex = SelVal)
    /\ [][ /\ (patchTbl' # patchTbl) => CommitStep
           /\ CommitStep =>
                 /\ ModeNow = "Save"
                 /\ SelIndex \in Chnls
                 /\ \A p \in Chnls, i \in Chnls :
                       /\ PatchChnlState'[p][i] =
                              IF p = SelIndex THEN ChnlState[i]
                              ELSE PatchChnlState[p][i]
                       /\ PatchModeState'[p][i] =
                              IF p = SelIndex THEN ChnlMode[i]
                              ELSE PatchModeState[p][i]
                 /\ chnlVars' = chnlVars ]_vars

\* C3: a commit has overwritten a patch other than patch 0, the slot chosen
\* with the selector
C3_Witness ==
    /\ pc = "s_wait" /\ ev = "commit"
    /\ old.sel # 0
    /\ PatchModeState[old.sel] = ChnlMode
    /\ PatchChnlState[old.sel] = ChnlState
    /\ <<PatchChnlState, PatchModeState>> # <<old.pcs, old.pms>>

\* C4: when the pass that committed ends, the mode is normal and SelIndex
\* is 0.
C4_AfterCommit ==
    (PassEnd /\ ev = "commit") => (ModeNow = "Normal" /\ SelIndex = 0)

\* C5: save mode is entered and left only with SaveModeCounter > 3; the
\* counter rises by one, in a 500 ms task, while armed, and otherwise only
\* returns to 0; and every 500 ms task counted since the last reset found
\* Select latched down with no release latched.
C5_LongPressOnly ==
    [][ /\ (SaveMode' # SaveMode) =>
               /\ EntryStep \/ CommitStep
               /\ SaveModeCounter > LongPress
               /\ ~late
        /\ (SaveModeCounter' # SaveModeCounter) =>
               \/ SaveModeCounter' = 0
               \/ /\ SaveModeCounter' = SaveModeCounter + 1
                  /\ SvMdCntrActive
                  /\ ~tmr500 /\ tmr500' ]_vars

\* C6: when a pass ends that started in normal or save mode with Select
\* latched pressed and released, On/Off idle and the counter not past 3, the
\* mode, the patches and (the selector reading not having changed) the
\* channels are as they were, SaveModeCounter is 0 and the counter is
\* disarmed.
C6_EarlyRelease ==
    (PassEnd /\ old.tap /\ old.mode \in {"Normal", "Save"}) =>
        /\ ModeNow = old.mode
        /\ <<PatchChnlState, PatchModeState>> = <<old.pcs, old.pms>>
        /\ ~old.chg => (ChnlState = old.cs /\ ChnlMode = old.cm)
        /\ SaveModeCounter = 0
        /\ ~SvMdCntrActive

\* C7: PatchActive is no patch or one patch index; after the On/Off tap of
\* patch mode at SelIndex k the active patch is k if k was not active and no
\* patch if k was.
C7_OneActivePatch ==
    /\ PatchActive \in Chnls \cup {NoPatch}
    /\ (pc = "p_clr" /\ ev = "onoff") =>
           /\ old.mode = "Patch"
           /\ SelIndex = old.sel
           /\ PatchActive = (IF old.pa = old.sel THEN NoPatch ELSE old.sel)

\* C7: an On/Off tap has activated a patch while another patch was active
C7_Witness ==
    /\ pc = "p_clr" /\ ev = "onoff"
    /\ old.pa \in Chnls /\ old.pa # old.sel
    /\ PatchActive = old.sel

\* C8: between passes SelIndex is in 0..3, and a Select tap leaves SelIndex
\* one further modulo 4: 0 when taken at 3.
C8_SelIndexRange ==
    /\ (pc = "top") => SelIndex \in 0 .. 3
    /\ (pc \in {"p_clr", "n_clr"} /\ ev = "select") =>
           /\ SelIndex = (old.sel + 1) % 4
           /\ (old.sel = 3) => SelIndex = 0

\* C8: a Select tap was taken at SelIndex 3
C8_Witness ==
    /\ pc \in {"p_clr", "n_clr"} /\ ev = "select"
    /\ old.sel = 3 /\ SelIndex = 0

\* the rest of the settings a tap or a selector change of normal mode leaves
\* alone
C9Frame ==
    /\ patchTbl' = patchTbl
    /\ PatchActive' = PatchActive
    /\ modeVars' = modeVars

\* C9: in normal mode the On/Off tap inverts ChnlState at SelIndex only, the
\* Select tap only moves SelIndex one further modulo 4, a changed selector
\* reading sets ChnlMode at SelIndex to the reading and stores it; none of
\* them changes another channel, a patch, PatchActive or the mode.
C9_NormalActions ==
    [][ /\ (pc = "n_tog" /\ pc' # pc) =>
               /\ ModeNow = "Normal"
               /\ \A i \in Chnls :
                     ChnlState'[i] = (IF i = SelIndex THEN ~ChnlState[i]
                                      ELSE ChnlState[i])
               /\ ChnlMode' = ChnlMode
               /\ SelIndex' = SelIndex
               /\ C9Frame
        /\ (pc = "n_inc" /\ pc' # pc) =>
               /\ ModeNow = "Normal"
               /\ chnlVars' = chnlVars
               /\ C9Frame
        /\ (pc = "n_wrap" /\ pc' # pc) =>
               /\ SelIndex' = (old.sel + 1) % 4
               /\ chnlVars' = chnlVars
               /\ C9Frame
        /\ (pc = "n_sel" /\ pc' # pc) =>
               /\ SelValChng =>
                     /\ \A i \in Chnls :
                           ChnlMode'[i] = (IF i = SelIndex THEN SelVal
                                           ELSE ChnlMode[i])
                     /\ DecodeChnlMode(NvmData') = ChnlMode'
               /\ ~SelValChng => ChnlMode' = ChnlMode
               /\ ChnlState' = ChnlState
               /\ SelIndex' = SelIndex
               /\ C9Frame ]_vars

\* C9: a pass of normal mode with the selector at channel 1 has set that
\* channel's taper from a changed reading
C9_Witness ==
    /\ PassEnd /\ old.mode = "Normal" /\ ModeNow = "Normal"
    /\ old.chg /\ SelIndex = 1
    /\ ChnlMode # old.cm /\ ChnlMode[1] = SelVal

\* the value the taper t makes of the signal
C10Map(signal, t) ==
    IF t = 0 THEN signal
    ELSE IF t = 1 THEN 255 - signal
    ELSE IF t = 2 THEN LogPot[signal + 1]
    ELSE LogPot[(255 - signal) + 1]

\* the writes a pass makes from enabled flags en and tapers md
C10Writes(en, md) ==
    \A i \in Chnls :
        PotOut[i] = (IF en[i] THEN C10Map(ExpVal, md[i]) ELSE NoWrite)

\* C10: a pass of normal mode writes each enabled channel the mapped signal
\* and no disabled channel; a pass of patch mode does so with the flags and
\* tapers of the active patch, and writes nothing when no patch is active.
C10_Outputs ==
    /\ (PassEnd /\ old.mode = "Normal") => C10Writes(ChnlState, ChnlMode)
    /\ (PassEnd /\ old.mode = "Patch" /\ PatchActive # NoPatch) =>
           C10Writes(PatchChnlState[PatchActive], PatchModeState[PatchActive])
    /\ (PassEnd /\ old.mode = "Patch" /\ PatchActive = NoPatch) =>
           \A i \in Chnls : PotOut[i] = NoWrite

\* C10: a pass of patch mode has written all four channels, one with each
\* taper
C10_Witness ==
    /\ PassEnd /\ old.mode = "Patch" /\ PatchActive \in Chnls
    /\ \A i \in Chnls : PatchChnlState[PatchActive][i]
    /\ {PatchModeState[PatchActive][i] : i \in Chnls} = 0 .. 3
    /\ \A i \in Chnls : PotOut[i] # NoWrite

\* C11: after a combined press is acted on, loop() takes no gesture branch
\* (no On/Off tap, no Select tap, no long-press arming, no second mode
\* change) until a button is pressed anew, however the two buttons are
\* released.
C11_CombinedOnly ==
    [][ (pc = "top" /\ pc' \in {"p_onoff", "p_inc", "p_mode",
                                "n_tog", "n_inc", "n_mode", "n_arm"})
            => fresh ]_vars

\* C12: when a pass that started in normal mode and acted on a combined
\* press ends, the mode is patch, SelIndex is 0 and no patch is active; and
\* a pass of patch mode with no active patch writes no output.
C12_EnterPatch ==
    /\ (PassEnd /\ ev = "combined" /\ old.mode = "Normal") =>
           /\ ModeNow = "Patch"
           /\ SelIndex = 0
           /\ PatchActive = NoPatch
    /\ (PassEnd /\ old.mode = "Patch" /\ PatchActive = NoPatch) =>
           \A i \in Chnls : PotOut[i] = NoWrite

\* C13: whenever loop() is at the head of a pass, the record decodes to the
\* current channel tapers, the current patches and the current
\* patch / non-patch mode, and byte 9 is non-zero only in patch mode.
C13_RecordCurrent ==
    (pc = "top") =>
        /\ DecodeChnlMode(NvmData) = ChnlMode
        /\ DecodePatchChnlState(NvmData) = PatchChnlState
        /\ DecodePatchModeState(NvmData) = PatchModeState
        /\ DecodePatchMode(NvmData) = PatchMode
        /\ (NvmData[9] # 0) => ModeNow = "Patch"

\* C13: a pass of normal mode that changed a taper and entered save mode has
\* ended
C13_Witness ==
    /\ PassEnd /\ old.mode = "Normal" /\ ModeNow = "Save"
    /\ ChnlMode # old.cm
    /\ DecodeChnlMode(NvmData) = ChnlMode
    /\ NvmData[9] = 0

\* the record the layout asks for: byte 0 the channel tapers, two bits each;
\* byte 1 + 2i the enabled bits of patch i; byte 2 + 2i its tapers; byte 9
\* the mode
C14Layout(r) ==
    /\ r[0] = ChnlMode[0] + 4 * ChnlMode[1] + 16 * ChnlMode[2] + 64 * ChnlMode[3]
    /\ \A i \in Chnls :
          /\ r[1 + 2 * i] =
                 BoolByte(PatchChnlState[i][0]) + 2 * BoolByte(PatchChnlState[i][1])
                 + 4 * BoolByte(PatchChnlState[i][2]) + 8 * BoolByte(PatchChnlState[i][3])
          /\ r[2 + 2 * i] =
                 PatchModeState[i][0] + 4 * PatchModeState[i][1]
                 + 16 * PatchModeState[i][2] + 64 * PatchModeState[i][3]
    /\ r[9] = (IF PatchMode THEN 1 ELSE 0)

\* the record UpdateNvmData builds has the layout, and reading it back as
\* ReadNvmData does returns the configuration
C14Back ==
    LET e == UpdateNvmData
        r == Seq10(<<e[0], e[1], e[2], e[3], e[4], e[5], e[6], e[7], e[8], e[9]>>)
    IN  /\ C14Layout(r)
        /\ DecodeChnlMode(r) = ChnlMode
        /\ DecodePatchChnlState(r) = PatchChnlState
        /\ DecodePatchModeState(r) = PatchModeState
        /\ DecodePatchMode(r) = PatchMode

\* the configuration UpdateNvmData encodes is not the one the pass began with
C14Changed ==
    \/ ChnlMode # old.cm
    \/ PatchChnlState # old.pcs
    \/ PatchModeState # old.pms
    \/ PatchMode # (old.mode = "Patch")

\* C14: in every reachable state the record UpdateNvmData builds has the
\* layout, and reading it back as ReadNvmData does returns the channel
\* tapers, the patch flags, the patch tapers and the patch / non-patch mode.
\* (C14Back depends on the configuration alone, and a state whose
\* configuration is the one its pass began with has the configuration of a
\* state of the pass before: C14Back holds in every reachable state iff it
\* holds until loop() first runs and wherever the configuration has changed
\* in the pass.)
C14_RoundTrip == (ev = "setup" \/ C14Changed) => C14Back

\* C14: UpdateNvmData has just stored a configuration that a commit made
\* different from any stored at start-up
C14_Witness ==
    /\ pc = "s_track" /\ ev = "commit"
    /\ NvmData = UpdateNvmData
    /\ NvmData \notin EepromImages
    /\ \E p \in Chnls : \E i \in Chnls :
          PatchChnlState[p][i] /\ PatchModeState[p][i] # 0

\* C15: whatever the ten stored bytes are, after start-up every channel
\* taper and every patch taper is in 0..3, every patch flag is a flag and the
\* mode is normal or patch.
C15_LoadInRange ==
    (pc = "top" /\ ev = "setup") =>
        /\ \A i \in Chnls : ChnlMode[i] \in 0 .. 3
        /\ \A p \in Chnls, i \in Chnls :
              /\ PatchModeState[p][i] \in 0 .. 3
              /\ PatchChnlState[p][i] \in BOOLEAN
        /\ ModeNow \in {"Normal", "Patch"}
        /\ PatchMode \in BOOLEAN /\ ~SaveMode

\* C15: the device has started on a record whose mode byte is neither 0 nor
\* 1 and whose taper byte has all its bits set
C15_Witness ==
    /\ pc = "top" /\ ev = "setup"
    /\ NvmData[9] = 7 /\ NvmData[0] = 255
    /\ ModeNow = "Patch" /\ \A i \in Chnls : ChnlMode[i] = 3

\* the statements of loop() that call ClrBtns
ClearStep == pc \in {"p_clr", "p_upd", "n_clr", "n_upd", "s_upd"} /\ pc' # pc

\* one button over one step: the level last read, its flags before (p, r)
\* and after (p2, r2)
C16Button(lvl, p, r, p2, r2) ==
    /\ (~p /\ p2) => (lvl = LOW /\ ~r)
    /\ (~r /\ r2) => (lvl = HIGH /\ p)
    /\ ((p /\ ~p2) \/ (r /\ ~r2)) => (ClearStep /\ ~p2 /\ ~r2)

\* C16: a sample latches `pressed' only on a low level with both flags of the
\* button false, latches `released' only on a high level with `pressed' set
\* and `released' not set, and never clears a flag: a flag goes back to false
\* only in a statement that calls ClrBtns; and whenever loop() is at its head,
\* `released' implies `pressed' for both buttons.
C16_Latching ==
    /\ [][ /\ C16Button(Btn0State', Btn0Pressed, Btn0Released,
                        Btn0Pressed', Btn0Released')
           /\ C16Button(Btn1State', Btn1Pressed, Btn1Released,
                        Btn1Pressed', Btn1Released') ]_vars
    /\ [](pc = "top" => /\ Btn0Released => Btn0Pressed
                        /\ Btn1Released => Btn1Pressed)

\* a tap of On/Off latched whole while Select is latched down, after an
\* earlier gesture was cleared
C16_Witness ==
    /\ pc = "top" /\ ev \notin {"setup", "none"}
    /\ Btn0Pressed /\ Btn0Released /\ Btn0State = HIGH
    /\ Btn1Pressed /\ ~Btn1Released /\ Btn1State = LOW

\* the LED vectors against the mapping of the current mode, Selection Index,
\* channel state and active patch (0 off, 1 on, 2 slow blink, 3 fast blink).
\* Where the mapping names no source (no patch is active; the Selection
\* Index is past the last channel) any on/off value is let pass.
C17Chnl(i) ==
    IF ModeNow = "Normal"
    THEN ChnlLedState[i] =
            IF SelIndex = i /\ ~ChnlState[i] THEN 2
            ELSE IF SelIndex = i /\ ChnlState[i] THEN 3
            ELSE IF ChnlState[i] THEN 1 ELSE 0
    ELSE IF ModeNow = "Patch"
    THEN IF PatchActive \in Chnls
         THEN ChnlLedState[i] = BoolByte(PatchChnlState[PatchActive][i])
         ELSE ChnlLedState[i] \in {0, 1}
    ELSE ChnlLedState[i] = BoolByte(ChnlState[i])

C17Mode(i) ==
    IF ModeNow = "Normal"
    THEN IF SelIndex \in Chnls
         THEN ModeLedState[i] = IF ChnlMode[SelIndex] = i THEN 1 ELSE 0
         ELSE ModeLedState[i] \in {0, 1}
    ELSE IF ModeNow = "Patch"
    THEN ModeLedState[i] =
            IF SelIndex = i /\ PatchActive = i THEN 3
            ELSE IF SelIndex = i THEN 2
            ELSE IF PatchActive = i THEN 1 ELSE 0
    ELSE ModeLedState[i] = IF SelIndex = i THEN 3 ELSE 0

C17Leds == \A i \in Chnls : C17Chnl(i) /\ C17Mode(i)

\* C17: immediately after a recompute of the LEDs (every step that changes a
\* LED state vector is one) the channel and mode LED vectors equal the
\* mapping of the current mode, Selection Index, channel state and active
\* patch.
C17_LedMapping == [][ (ledVars' # ledVars) => C17Leds' ]_vars

\* the shape of the table LogPot
C18Shape ==
    /\ DOMAIN LogPot = 1 .. 256
    /\ \A v \in 0 .. 255 : LogPot[v + 1] \in Byte
    /\ \A v \in 0 .. 254 : LogPot[v + 1] <= LogPot[v + 2]
    /\ LogPot[0 + 1] = 0
    /\ LogPot[255 + 1] = 255

\* C18: the Log curve (the table LogPot) has 256 entries, every one a byte,
\* is non-decreasing over all indices 0..255, starts at 0 and ends at 255;
\* so whatever loop() writes to an output is a byte.
C18_LogCurve ==
    /\ C18Shape
    /\ \A i \in Chnls : PotOut[i] = NoWrite \/ PotOut[i] \in Byte

\* a pass has written one channel through the table at the signal and
\* another through the table at the inverted signal
C18_Witness ==
    /\ PassEnd
    /\ \E i \in Chnls, j \in Chnls :
          /\ i # j
          /\ PotOut[i] = LogPot[ExpVal + 1] /\ PotOut[i] < ExpVal
          /\ PotOut[j] = LogPot[(255 - ExpVal) + 1] /\ PotOut[j] > PotOut[i]

\* both buttons read up at the last sample
BothUp == Btn0State = HIGH /\ Btn1State = HIGH
NoFlags == ~Btn0Pressed /\ ~Btn0Released /\ ~Btn1Pressed /\ ~Btn1Released

\* C19: once both buttons are released and stay released, loop() comes to
\* clear all four latch flags (and they are clear again and again): no
\* latched combination is left unconsumed forever.
C19_FlagsConsumed == (<>[]BothUp) => ([]<>NoFlags)

\* the statements of loop() that index an array with the Selection Index
\* (the toggle of line 284, the taper of line 338, the copy of lines
\* 377-380) or with the active patch (the output loop of lines 255-278)
C20Loop ==
    /\ (pc = "n_tog" /\ pc' # pc) => SelIndex \in Chnls
    /\ (pc = "n_sel" /\ pc' # pc /\ SelValChng) => SelIndex \in Chnls
    /\ (pc = "s_chk" /\ pc' = "s_wait") => SelIndex \in Chnls
    /\ (pc = "p_sel" /\ pc' # pc /\ PatchActive < 5) => PatchActive \in Chnls

\* a recompute of the LEDs (every step that changes a LED state vector is
\* one): the patch table is indexed with the active patch, ChnlMode with the
\* Selection Index and ModeLedState with the taper found there
C20Leds ==
    (ledVars' # ledVars) =>
        /\ PatchMode' => PatchActive' \in Chnls
        /\ (~PatchMode' /\ ~SaveMode') =>
              /\ SelIndex' \in Chnls
              /\ ChnlMode'[SelIndex'] \in Chnls

\* C20: every index used to read or write the channel arrays, the patch
\* tables and the LED state arrays is in 0..3; the LED recompute and the
\* output production never index the patch tables with the value 255 that
\* stands for no active patch.
C20_IndicesInRange == [][ C20Loop /\ C20Leds ]_vars

\* a LED recompute made by the interrupt: the LED state vectors change in a
\* step that leaves loop() where it stands (every statement of loop() that
\* calls CheckLeds moves on)
C21Recompute == ledVars' # ledVars /\ pc' = pc

\* C21: wherever the Timer1 interrupt preempts loop(), the Selection Index
\* its LED recompute uses is in 0..3: it never sees the value 4 between the
\* increment of a Select tap and the wrap to 0.
C21_IsrSelIndex == [][ C21Recompute => SelIndex \in Chnls ]_vars

\* a pass has ended that took the device from normal to patch mode, from
\* patch to normal mode or from normal to save mode
C22Transition ==
    /\ PassEnd
    /\ <<old.mode, ModeNow>> \in { <<"Normal", "Patch">>, <<"Patch", "Normal">>,
                                   <<"Normal", "Save">> }

\* C22: a pass that changes the mode from normal to patch, from patch to
\* normal or from normal to save changes no channel flag, no channel taper,
\* no patch and not the active patch, whether or not the selector reading
\* changed in that pass.
C22_TransitionFrame ==
    C22Transition =>
        /\ ChnlState = old.cs
        /\ ChnlMode = old.cm
        /\ PatchChnlState = old.pcs
        /\ PatchModeState = old.pms
        /\ PatchActive = old.pa

====
